---- MODULE Spec2Model ----
(***************************************************************************)
(* A model of gutenberg.py: the ebook boundary extractor (get_ebook), the  *)
(* word counter (count_words) and the Database class that resolves words   *)
(* to ids and loads ebooks into five tables, the last write of each ebook  *)
(* being handed to a background thread.                                    *)
(*                                                                         *)
(* Texts are sequences of one-character strings; offsets are 0-based as in *)
(* Python and converted where a TLA+ sequence (1-based) is indexed.        *)
(***************************************************************************)
EXTENDS Integers, Sequences, FiniteSets, TLC

VARIABLES
    text,           \* get_ebook: r.text, the raw text that was fetched
    result,         \* what the call under study returned (Pending before it)
    ebooks,         \* table ebooks: the rows in insertion order
    authors,        \* table authors
    ebook_authors,  \* table ebook_authors
    words,          \* table words
    words_seq,      \* the next value of the autoincrement of words.word_id
    ebook_words,    \* table ebook_words
    db,             \* the fields of the Database instance in use
    threads,        \* the write threads started so far: [db, ebook_id, vals, counts, state]
    build,          \* the frame of Database.build: its locals and where it stands
    resolved,       \* history: the <<word, id>> pairs this instance has returned
    call,           \* history: the call of _add_words_safe / _add_words_unsafe being dispatched
    writers         \* concurrent safe-mode instances inside _add_words_safe

extract_vars == <<text, result>>
store_vars == <<ebooks, authors, ebook_authors, words, words_seq, ebook_words>>
db_vars == <<db, threads, build, resolved, call>>
vars == <<text, result, ebooks, authors, ebook_authors, words, words_seq,
          ebook_words, db, threads, build, resolved, call, writers>>

(***************************************************************************)
(* Python values                                                           *)
(***************************************************************************)
None == [tag |-> "None"]
Str(s) == [tag |-> "str", val |-> s]
Pending == [tag |-> "pending"]

Min(S) == CHOOSE x \in S : \A y \in S : x <= y
Max(S) == CHOOSE x \in S : \A y \in S : x >= y

\* s[a:b] for 0 <= a, 0 <= b: Python clamps both ends to len(s)
Slice(s, a, b) ==
    LET hi == IF b < Len(s) THEN b ELSE Len(s)
    IN IF a >= hi THEN <<>> ELSE SubSeq(s, a + 1, hi)

\* s.find(c, from): the least 0-based index >= from holding c, or -1
Find(s, c, from) ==
    LET hits == {i \in (from + 1)..Len(s) : s[i] = c}
    IN IF hits = {} THEN -1 ELSE Min(hits) - 1

\* str.lower() on one character (the letters the model's texts use)
ToLower ==
    [A |-> "a", B |-> "b", C |-> "c", D |-> "d", E |-> "e", F |-> "f",
     G |-> "g", H |-> "h", I |-> "i", J |-> "j", K |-> "k", L |-> "l",
     M |-> "m", N |-> "n", O |-> "o", P |-> "p", Q |-> "q", R |-> "r",
     S |-> "s", T |-> "t", U |-> "u", V |-> "v", W |-> "w", X |-> "x",
     Y |-> "y", Z |-> "z"]
UpperCase == DOMAIN ToLower
LowerChar(c) == IF c \in UpperCase THEN ToLower[c] ELSE c
Lower(s) == [i \in 1..Len(s) |-> LowerChar(s[i])]

(***************************************************************************)
(* Regular expressions.  Every pattern of gutenberg.py is a chain          *)
(* lit1 .* lit2 .* ... of literals; it is kept as the sequence of its      *)
(* literals.  "." does not match a line break, and re.I compares letters   *)
(* without case.                                                           *)
(***************************************************************************)
ebook_headers == <<
    << <<"\n", "P", "r", "o", "d", "u", "c", "e", "d", " ", "b", "y", " ">> >>,
    << <<"\n">>, <<"*", "*", "*">>,
       <<"S", "T", "A", "R", "T", " ", "O", "F", " ">>,
       <<"P", "R", "O", "J", "E", "C", "T", " ", "G", "U", "T", "E", "N", "B", "E", "R", "G">> >>,
    << <<"\n">>, <<"E", "N", "D", " ">>,
       <<"S", "M", "A", "L", "L", " ", "P", "R", "I", "N", "T">> >>,
    << <<"\n", "<", "<", "T", "H", "I", "S", " ", "E", "L", "E", "C", "T", "R", "O", "N", "I", "C", " ", "V", "E", "R", "S", "I", "O", "N">> >>,
    << <<"\n", "*", "S", "M", "A", "L", "L", " ", "P", "R", "I", "N", "T", "!">> >>,
    << <<"\n", "*">>,
       <<"T", "h", "i", "s", " ", "f", "i", "l", "e", " ", "s", "h", "o", "u", "l", "d", " ", "b", "e", " ", "n", "a", "m", "e", "d">> >>,
    << <<"\n", "C", "h", "a", "r", "a", "c", "t", "e", "r", " ", "s", "e", "t", " ", "e", "n", "c", "o", "d", "i", "n", "g">> >>
>>

ebook_footers == <<
    << <<"\n">>,
       <<"P", "r", "o", "j", "e", "c", "t", " ", "G", "u", "t", "e", "n", "b", "e", "r", "g">> >>,
    << <<"\n", "<", "<", "T", "H", "I", "S", " ", "E", "L", "E", "C", "T", "R", "O", "N", "I", "C", " ", "V", "E", "R", "S", "I", "O", "N">> >>,
    << <<"\n", "[", "E", "n", "d", " ", "o", "f", " ", "o", "r", "i", "g", "i", "n", "a", "l", " ", "t", "e", "x", "t">> >>
>>

\* the literal lit stands in s at the 1-based position i (re.I)
LitAt(lit, s, i) ==
    /\ i + Len(lit) - 1 <= Len(s)
    /\ \A k \in 1..Len(lit) : LowerChar(s[i + k - 1]) = LowerChar(lit[k])

\* s[a..b] (1-based, inclusive) holds no line break: ".*" can cover it
DotStar(s, a, b) == \A k \in a..b : s[k] # "\n"

RECURSIVE MatchFrom(_, _, _, _)
\* literal k of the pattern stands at position i and the rest follows
MatchFrom(pat, k, s, i) ==
    /\ LitAt(pat[k], s, i)
    /\ \/ k = Len(pat)
       \/ \E j \in (i + Len(pat[k]))..Len(s) :
             /\ LitAt(pat[k + 1], s, j)
             /\ DotStar(s, i + Len(pat[k]), j - 1)
             /\ MatchFrom(pat, k + 1, s, j)

\* re.search(pat, s, re.I): res.start() of the leftmost match, -1 for None
Search(pat, s) ==
    LET hits == {i \in 1..Len(s) : MatchFrom(pat, 1, s, i)}
    IN IF hits = {} THEN -1 ELSE Min(hits) - 1

\* "for p in pats: res = re.search(p, s); if res: break": the index of the
\* first pattern of the list that matches anywhere in s, 0 when none does
RECURSIVE FirstFrom(_, _, _)
FirstFrom(pats, s, k) ==
    IF k > Len(pats) THEN 0
    ELSE IF Search(pats[k], s) # -1 THEN k
    ELSE FirstFrom(pats, s, k + 1)
FirstPattern(pats, s) == FirstFrom(pats, s, 1)

(***************************************************************************)
(* get_ebook, from the text the download returned                          *)
(***************************************************************************)
HeaderWindow == 20000
FooterWindow == 30000

\* a header search that takes the leftmost match of all the patterns
HeaderMatchEarliest(t) ==
    LET prefix == Slice(t, 0, HeaderWindow)
        hits == {Search(ebook_headers[k], prefix) : k \in 1..Len(ebook_headers)} \ {-1}
    IN IF hits = {} THEN -1 ELSE Min(hits)

\* res.start() of the header search, -1 when the for loop falls to its else
HeaderMatch(t) ==
    LET prefix == Slice(t, 0, HeaderWindow)
        k == FirstPattern(ebook_headers, prefix)
    IN IF k = 0 THEN -1 ELSE Search(ebook_headers[k], prefix)

\* start = r.text.find('\n', res.start()+1) + 1
BodyStart(t, res) == Find(t, "\n", res + 1) + 1

\* ind = max(start, len(r.text)-30000)
FooterInd(t, start) == Max({start, Len(t) - FooterWindow})

\* res.start() of the footer search, which is run on r.text as a whole
FooterMatch(t) ==
    LET k == FirstPattern(ebook_footers, t)
    IN IF k = 0 THEN -1 ELSE Search(ebook_footers[k], t)

GetEbook(t) ==
    LET h == HeaderMatch(t) IN
    IF h = -1 THEN None
    ELSE LET start == BodyStart(t, h)
             ind == FooterInd(t, start)
             f == FooterMatch(t)
         IN IF f = -1 THEN None
            ELSE Str(Slice(t, start, f + ind))

(***************************************************************************)
(* count_words                                                             *)
(***************************************************************************)
RECURSIVE Split(_, _)
\* the pieces of s between the occurrences of the character c
Split(s, c) ==
    LET i == Find(s, c, 0)
    IN IF i = -1 THEN <<s>>
       ELSE <<Slice(s, 0, i)>> \o Split(Slice(s, i + 1, Len(s)), c)

\* str.splitlines(): the lines of s, no empty line after a final line break
SplitLines(s) ==
    LET ps == Split(s, "\n")
    IN IF ps[Len(ps)] = <<>> THEN SubSeq(ps, 1, Len(ps) - 1) ELSE ps

RECURSIVE Flatten(_)
Flatten(ss) == IF ss = <<>> THEN <<>> ELSE Head(ss) \o Flatten(Tail(ss))

\* one blank-separated item of a line: word_tokenize makes the full stop that
\* ends it a token of its own
SplitPeriod(w) ==
    IF w = <<>> THEN <<>>
    ELSE IF Len(w) > 1 /\ w[Len(w)] = "." THEN <<SubSeq(w, 1, Len(w) - 1), <<".">>>>
    ELSE <<w>>

\* the words that the Treebank rules of word_tokenize split in two
\* (CONTRACTIONS2: cannot, gimme, gonna, gotta, lemme, wanna)
Contractions == {
    << <<"c", "a", "n">>, <<"n", "o", "t">> >>,
    << <<"g", "i", "m">>, <<"m", "e">> >>,
    << <<"g", "o", "n">>, <<"n", "a">> >>,
    << <<"g", "o", "t">>, <<"t", "a">> >>,
    << <<"l", "e", "m">>, <<"m", "e">> >>,
    << <<"w", "a", "n">>, <<"n", "a">> >>}

\* one item after the contraction rules (re.I)
SplitContraction(w) ==
    LET cs == {c \in Contractions : Lower(w) = c[1] \o c[2]}
    IN IF cs = {} THEN <<w>>
       ELSE LET c == CHOOSE x \in cs : TRUE
            IN <<SubSeq(w, 1, Len(c[1])), SubSeq(w, Len(c[1]) + 1, Len(w))>>

\* one blank-separated item of a line as its tokens
Tokens(w) ==
    LET ps == SplitPeriod(w)
    IN Flatten([i \in 1..Len(ps) |-> SplitContraction(ps[i])])

\* word_tokenize(line) for texts of letters, blanks, full stops and signs
word_tokenize(line) ==
    LET items == Split(line, " ")
    IN Flatten([i \in 1..Len(items) |-> Tokens(items[i])])

Letters == {ToLower[u] : u \in DOMAIN ToLower} \cup DOMAIN ToLower

\* str.isalpha()
IsAlpha(w) == w # <<>> /\ \A i \in 1..Len(w) : w[i] \in Letters

\* entries of nltk's English stop word list
stopwords == {
    <<"t", "h", "e">>,
    <<"o", "n">>,
    <<"o", "f">>,
    <<"b", "y">>,
    <<"a">>,
    <<"a", "n">>,
    <<"a", "n", "d">>,
    <<"i", "n">>,
    <<"t", "o">>,
    <<"i", "s">>,
    <<"i", "t">>,
    <<"t", "h", "i", "s">>,
    <<"s", "h", "o", "u", "l", "d">>,
    <<"b", "e">>,
    <<"c", "a", "n">>,
    <<"n", "o", "t">>,
    <<"m", "e">>}

RECURSIVE CounterUpdate(_, _)
\* Counter.update(tokens): counts is a sequence of <<word, count>> in the order
\* of first occurrence, as the dict keeps its keys
CounterUpdate(counts, tokens) ==
    IF tokens = <<>> THEN counts
    ELSE LET w == Head(tokens)
             at == {i \in 1..Len(counts) : counts[i][1] = w}
         IN IF at = {}
            THEN CounterUpdate(Append(counts, <<w, 1>>), Tail(tokens))
            ELSE CounterUpdate(
                     [counts EXCEPT ![Min(at)] = <<w, counts[Min(at)][2] + 1>>],
                     Tail(tokens))

\* the generator of count_words: the tokens of a line that are counted
Counted(line) ==
    SelectSeq(word_tokenize(Lower(line)),
              LAMBDA w : IsAlpha(w) /\ w \notin stopwords)

\* a counter that starts again on every line
CountLinesLast(counts, lines) ==
    IF lines = <<>> THEN counts
    ELSE CounterUpdate(<<>>, Counted(lines[Len(lines)]))

RECURSIVE CountLines(_, _)
CountLines(counts, lines) ==
    IF lines = <<>> THEN counts
    ELSE CountLines(CounterUpdate(counts, Counted(Head(lines))), Tail(lines))

count_words(body) == CountLines(<<>>, SplitLines(body))

(***************************************************************************)
(* Database._hash: crc32(bytes(word, 'utf-8')) % 10000                     *)
(***************************************************************************)
\* a ^ b on 16-bit values, bit by bit
Xor(a, b) ==
    LET X(k) == (((a \div k) + (b \div k)) % 2) * k
    IN X(1) + X(2) + X(4) + X(8) + X(16) + X(32) + X(64) + X(128) + X(256)
       + X(512) + X(1024) + X(2048) + X(4096) + X(8192) + X(16384) + X(32768)

\* the utf-8 byte of a lower-case letter
Ord ==
    [a |-> 97, b |-> 98, c |-> 99, d |-> 100, e |-> 101, f |-> 102,
     g |-> 103, h |-> 104, i |-> 105, j |-> 106, k |-> 107, l |-> 108,
     m |-> 109, n |-> 110, o |-> 111, p |-> 112, q |-> 113, r |-> 114,
     s |-> 115, t |-> 116, u |-> 117, v |-> 118, w |-> 119, x |-> 120,
     y |-> 121, z |-> 122]

\* TLC's integers are 32-bit and signed: the 32-bit register is kept as its
\* two 16-bit halves <<high, low>>
CrcPolyHigh == 60856
CrcPolyLow == 33568
Half == 65536

\* one round of the reflected CRC-32 shift register (polynomial 0xEDB88320)
CrcShift(crc) ==
    LET hi == crc[1] \div 2
        lo == (crc[2] \div 2) + (crc[1] % 2) * (Half \div 2)
    IN IF crc[2] % 2 = 1 THEN <<Xor(hi, CrcPolyHigh), Xor(lo, CrcPolyLow)>>
       ELSE <<hi, lo>>

RECURSIVE CrcBits(_, _)
CrcBits(crc, n) == IF n = 0 THEN crc ELSE CrcBits(CrcShift(crc), n - 1)

\* the 256-entry table of the byte-wise CRC-32, as zlib computes it
CrcTable == [n \in 0..255 |-> CrcBits(<<0, n>>, 8)]

RECURSIVE CrcBytes(_, _)
\* crc = table[(crc ^ byte) & 0xFF] ^ (crc >> 8), byte after byte
CrcBytes(crc, w) ==
    IF w = <<>> THEN crc
    ELSE LET t == CrcTable[Xor(crc[2] % 256, Ord[Head(w)])]
         IN CrcBytes(<<Xor(crc[1] \div 256, t[1]),
                       Xor((crc[2] \div 256) + (crc[1] % 256) * 256, t[2])>>,
                     Tail(w))

\* binascii.crc32 of the bytes of a word, as <<high, low>>
crc32(w) ==
    LET r == CrcBytes(<<Half - 1, Half - 1>>, w)
    IN <<Xor(r[1], Half - 1), Xor(r[2], Half - 1)>>

HashBuckets == 10000

(***************************************************************************)
(* The texts the extractor is run on: every text of up to MaxLines lines,  *)
(* each line taken from Lines and preceded by its line break.              *)
(***************************************************************************)
MaxLines == 4

LineProduced == <<"P", "r", "o", "d", "u", "c", "e", "d", " ", "b", "y", " ", "X">>
LineStart == <<"*", "*", "*", " ", "S", "T", "A", "R", "T", " ", "O", "F", " ", "P", "R", "O", "J", "E", "C", "T", " ", "G", "U", "T", "E", "N", "B", "E", "R", "G">>
LineCat == <<"T", "h", "e", " ", "c", "a", "t", " ", "s", "a", "t", " ", "o", "n", " ", "t", "h", "e", " ", "m", "a", "t", ".", " ", "T", "h", "e", " ", "c", "a", "t", " ", "r", "a", "n", ".">>
LineEmpty == <<>>
LineEnd == <<"E", "n", "d", " ", "o", "f", " ", "P", "r", "o", "j", "e", "c", "t", " ", "G", "u", "t", "e", "n", "b", "e", "r", "g">>
LineProducedPG == <<"P", "r", "o", "d", "u", "c", "e", "d", " ", "b", "y", " ", "P", "r", "o", "j", "e", "c", "t", " ", "G", "u", "t", "e", "n", "b", "e", "r", "g">>

Lines == {LineProduced, LineStart, LineCat, LineEmpty, LineEnd, LineProducedPG}

RECURSIVE Join(_)
Join(ls) == IF ls = <<>> THEN <<>> ELSE <<"\n">> \o Head(ls) \o Join(Tail(ls))

\* with or without a line break after the last line
Texts == {Join(ls) \o nl : ls \in UNION {[1..n -> Lines] : n \in 0..MaxLines},
                           nl \in {<<>>, <<"\n">>}}

\* Texts about as long as the header window: a run of Pad characters without
\* a line break, then one or two marker lines, a body line and a footer line.
LineCharset == <<"C", "h", "a", "r", "a", "c", "t", "e", "r", " ", "s", "e", "t", " ", "e", "n", "c", "o", "d", "i", "n", "g">>
Pad(n) == [i \in 1..n |-> "x"]
Heads == {<<LineProduced>>, <<LineStart, LineProduced>>}
\* the lengths at which a marker of Heads just fits, or just fails to fit,
\* into the first HeaderWindow characters
PadLens == {HeaderWindow - k : k \in {44, 43, 13, 12}}
LongTexts == {Pad(n) \o Join(h \o <<LineCat, LineEnd>>) \o <<"\n">> : n \in PadLens, h \in Heads}
\* a short text in which the last pattern of the list matches before the first
TextCharset == Join(<<LineCharset, LineProduced, LineCat, LineEnd>>) \o <<"\n">>

\* the end-to-end text of the specification, section 8
ExampleText == Join(<<LineProduced, LineCat, LineEmpty, LineEnd>>) \o <<"\n">>

(***************************************************************************)
(* What the network returns to build: metadata and raw texts               *)
(***************************************************************************)
LineMat == <<"T", "h", "e", " ", "m", "a", "t", ".">>
TextMat == Join(<<LineProduced, LineMat, LineEmpty, LineEnd>>)
TextNoHeader == Join(<<LineCat, LineEnd>>)
TextNoFooter == Join(<<LineProduced, LineCat>>)
TextEmptyBody == Join(<<LineProducedPG, LineCat, LineEnd>>)

\* r.text of the download, for the ebooks whose download succeeds
Catalog == {ExampleText, TextMat, TextNoHeader, TextNoFooter, TextEmptyBody}

\* the book that the site holds under an id
Book(ebook_id) == IF ebook_id % 2 = 1 THEN TextMat ELSE ExampleText

\* r.text of a download for an id: its book, or a file without the markers
\* or without a body
Served(ebook_id) == {Book(ebook_id), TextNoHeader, TextNoFooter, TextEmptyBody}

\* get_ebook and count_words on the catalog, evaluated once
EbookOf == [t \in Catalog |-> GetEbook(t)]
CountsOf == [t \in {u \in Catalog : EbookOf[u] # None} |-> count_words(EbookOf[t].val)]

\* meta['author'] of an id as the list of its author_id values
AuthorsOf(ebook_id) == IF ebook_id % 2 = 1 THEN <<1, 2>> ELSE <<2, 3>>
Languages == {"en", "fr"}

\* what get_meta can return for an id
Metas(ebook_id) == [language : Languages, author : {AuthorsOf(ebook_id)}]

(***************************************************************************)
(* The store: tables with their primary keys                               *)
(***************************************************************************)
Rows(tbl) == {tbl[i] : i \in 1..Len(tbl)}

\* word ids as Python holds them: an int, or the one-element list that
\* ResultProxy.inserted_primary_key returns
PyInt(n) == [list |-> FALSE, v |-> n]
PyList(n) == [list |-> TRUE, v |-> n]

\* crc32(...) % 10000 of the 32-bit value <<high, low>>
Bucket(c) == ((c[1] % HashBuckets) * (Half % HashBuckets) + c[2]) % HashBuckets

\* the words of the catalog texts, whose buckets are computed once
Vocabulary == {
    <<"c", "a", "t">>,
    <<"s", "a", "t">>,
    <<"m", "a", "t">>,
    <<"r", "a", "n">>,
    <<"e", "n", "d">>,
    <<"p", "r", "o", "j", "e", "c", "t">>}
HashOf == [w \in Vocabulary |-> Bucket(crc32(w))]

\* Database._hash
Hash(word) == IF word \in Vocabulary THEN HashOf[word] ELSE Bucket(crc32(word))

\* Database._has_author
HasAuthor(tbl, author_id) == \E r \in Rows(tbl) : r.author_id = author_id

\* an existence check that never finds the row
HasEbookNever(tbl, ebook_id) == FALSE

\* Database._has_ebook
HasEbook(tbl, ebook_id) == \E r \in Rows(tbl) : r.ebook_id = ebook_id

RECURSIVE AddAuthors(_, _)
\* "for author in authors: self._add_author(author)"
AddAuthors(tbl, ids) ==
    IF ids = <<>> THEN tbl
    ELSE AddAuthors(IF HasAuthor(tbl, Head(ids)) THEN tbl
                    ELSE Append(tbl, [author_id |-> Head(ids)]),
                    Tail(ids))

\* Database._word_id: the rows of the word's bucket are scanned for its value
WordId(tbl, word) ==
    LET hit == {i \in 1..Len(tbl) : tbl[i].hash = Hash(word) /\ tbl[i].value = word}
    IN IF hit = {} THEN -1 ELSE tbl[Min(hit)].word_id

\* conn.execute(Database.words.insert(), val) with no word_id among the keys of
\* val: the store numbers the row from its counter
InsertWord(tbl, seq, val) ==
    Append(tbl, [word_id |-> seq, hash |-> val.hash, value |-> val.value])

RECURSIVE AddWordsSafe(_, _, _, _)
\* Database._add_words_safe: [ids, words, seq] after the loop over ws
AddWordsSafe(ws, ids, tbl, seq) ==
    IF ws = <<>> THEN [ids |-> ids, words |-> tbl, seq |-> seq]
    ELSE LET word == Head(ws)
             word_id == WordId(tbl, word)
         IN IF word_id = -1
            THEN AddWordsSafe(Tail(ws), Append(ids, PyList(seq)),
                              InsertWord(tbl, seq, [hash |-> Hash(word), value |-> word]),
                              seq + 1)
            ELSE AddWordsSafe(Tail(ws), Append(ids, PyInt(word_id)), tbl, seq)

\* a dict with one more item
DictSet(d, k, v) == [x \in DOMAIN d \cup {k} |-> IF x = k THEN v ELSE d[x]]

RECURSIVE DictOfRows(_, _)
\* {word['value']: word['word_id'] for word in result}
DictOfRows(d, tbl) ==
    IF tbl = <<>> THEN d
    ELSE DictOfRows(DictSet(d, Head(tbl).value, Head(tbl).word_id), Tail(tbl))

\* Database._fetch_words: [word_dict, word_id_max]
FetchWords(tbl) ==
    LET d == DictOfRows(<<>>, tbl)
    IN [word_dict |-> d,
        word_id_max |-> IF DOMAIN d = {} THEN 0 ELSE Max({d[w] : w \in DOMAIN d})]

RECURSIVE NewWords(_, _, _, _)
\* the loop of _add_words_unsafe over ws: [word_dict, word_id_max, vals]
NewWords(ws, d, m, vals) ==
    IF ws = <<>> THEN [word_dict |-> d, word_id_max |-> m, vals |-> vals]
    ELSE LET word == Head(ws)
         IN IF word \in DOMAIN d
            THEN NewWords(Tail(ws), d, m, vals)
            ELSE NewWords(Tail(ws), DictSet(d, word, m + 1), m + 1,
                          Append(vals, [wordid |-> m + 1, hash |-> Hash(word), value |-> word]))

RECURSIVE InsertWords(_, _, _)
\* conn.execute(Database.words.insert(), vals): 'wordid' is no column of the
\* table, so each row is numbered by the store; [words, seq]
InsertWords(tbl, seq, vals) ==
    IF vals = <<>> THEN [words |-> tbl, seq |-> seq]
    ELSE InsertWords(InsertWord(tbl, seq, Head(vals)), seq + 1, Tail(vals))

\* Database._add_words_unsafe: [ids, words, seq, word_dict, word_id_max]
AddWordsUnsafe(ws, d0, m0, tbl, seq) ==
    LET f == IF m0 = -1 THEN FetchWords(tbl) ELSE [word_dict |-> d0, word_id_max |-> m0]
        n == NewWords(ws, f.word_dict, f.word_id_max, <<>>)
        ins == InsertWords(tbl, seq, n.vals)
    IN [ids |-> [i \in 1..Len(ws) |-> PyInt(n.word_dict[ws[i]])],
        words |-> ins.words, seq |-> ins.seq,
        word_dict |-> n.word_dict, word_id_max |-> n.word_id_max]

\* the key of an ebook_words row once the driver has bound its parameters
RowKey(r) == <<r.ebook_id, r.word_id.v>>

\* the primary key of ebook_words admits the rows of vals
KeysFree(tbl, vals) ==
    /\ \A i, j \in 1..Len(vals) : RowKey(vals[i]) = RowKey(vals[j]) => i = j
    /\ \A i \in 1..Len(vals) : \A r \in Rows(tbl) :
          <<r.ebook_id, r.word_id>> # RowKey(vals[i])

(***************************************************************************)
(* Database.__init__, build and the write thread                           *)
(***************************************************************************)
MaxEbook == 2       \* build is called on ranges within 1..MaxEbook
MaxBuilds == 2      \* calls of build
MaxDatabases == 2   \* Database instances constructed on the store

NewDb(n, c) ==
    [id |-> n, concurrency |-> c, word_id_max |-> -1, word_dict |-> <<>>, thread |-> 0]

IdleBuild ==
    [pc |-> "idle", ebook_id |-> 0, end |-> 0, cnt |-> 0, ebook |-> None,
     vals |-> <<>>, counts |-> <<>>, outcome |-> "", joined |-> "", exc |-> "",
     ret |-> -1, calls |-> 0]

NoCall == [fast |-> FALSE, words |-> <<>>, ids |-> <<>>, before |-> {}, new |-> {}]

ExtractIdle == text = <<>> /\ result = Pending

\* where the store's counter for words.word_id stands on an empty table: at 1
\* on a new one, further when values were used up before (rows that were
\* rolled back or deleted never give their values back)
FirstIds == {1, 2}

Init ==
    /\ ExtractIdle
    /\ ebooks = <<>> /\ authors = <<>> /\ ebook_authors = <<>>
    /\ words = <<>> /\ words_seq \in FirstIds /\ ebook_words = <<>>
    /\ \E c \in BOOLEAN : db = NewDb(1, c)
    /\ threads = <<>>
    /\ build = IdleBuild
    /\ resolved = {}
    /\ call = NoCall
    /\ writers = <<>>

\* db = Database(url, c) on the same store, as __main__ does for each range
Construct(c) ==
    /\ build.pc = "idle"
    /\ db.id < MaxDatabases
    /\ db' = NewDb(db.id + 1, c)
    /\ resolved' = {}
    /\ call' = NoCall
    /\ UNCHANGED <<extract_vars, store_vars, threads, build, writers>>

\* db.build(start, end)
BuildCall(start, end) ==
    /\ build.pc = "idle"
    /\ build.calls < MaxBuilds
    /\ build' = [IdleBuild EXCEPT !.pc = "loop", !.ebook_id = start, !.end = end,
                                  !.calls = build.calls + 1]
    /\ UNCHANGED <<extract_vars, store_vars, db, threads, resolved, call, writers>>

InLoop == build.pc = "loop" /\ build.ebook_id < build.end

\* "continue": the next id of the range
Continue(outcome) ==
    /\ build' = [build EXCEPT !.ebook_id = @ + 1, !.outcome = outcome]
    /\ UNCHANGED <<extract_vars, store_vars, db, threads, resolved, call, writers>>

\* if self._has_ebook(ebook_id): continue
SkipPresent ==
    /\ InLoop
    /\ HasEbook(ebooks, build.ebook_id)
    /\ Continue("AlreadyPresent")

\* get_meta returned None
SkipMeta ==
    /\ InLoop
    /\ ~HasEbook(ebooks, build.ebook_id)
    /\ Continue("MetadataFetchFailed")

\* meta['language'] != 'en'
SkipLanguage(meta) ==
    /\ InLoop
    /\ ~HasEbook(ebooks, build.ebook_id)
    /\ meta.language # "en"
    /\ Continue("NonEnglish")

\* get_ebook returned None because no file name gave the text
SkipText(meta) ==
    /\ InLoop
    /\ ~HasEbook(ebooks, build.ebook_id)
    /\ meta.language = "en"
    /\ Continue("TextFetchFailed")

\* a build that writes the ebook row before it looks at the text
SkipBoundaryAfterAdd(meta, raw) ==
    /\ InLoop
    /\ ~HasEbook(ebooks, build.ebook_id)
    /\ meta.language = "en"
    /\ EbookOf[raw] = None
    /\ ebooks' = Append(ebooks, [ebook_id |-> build.ebook_id, language |-> meta.language])
    /\ build' = [build EXCEPT !.ebook_id = @ + 1, !.outcome = "BoundaryExtractionFailed"]
    /\ UNCHANGED <<extract_vars, authors, ebook_authors, words, words_seq, ebook_words,
                   db, threads, resolved, call, writers>>

\* get_ebook returned None because the header or the footer was not found
SkipBoundary(meta, raw) ==
    /\ InLoop
    /\ ~HasEbook(ebooks, build.ebook_id)
    /\ meta.language = "en"
    /\ EbookOf[raw] = None
    /\ Continue("BoundaryExtractionFailed")

\* a build that counts the words before the ebook row is written
AddEbookNoRow(meta, raw) ==
    /\ InLoop
    /\ ~HasEbook(ebooks, build.ebook_id)
    /\ meta.language = "en"
    /\ EbookOf[raw] # None
    /\ build' = [build EXCEPT !.pc = "words", !.ebook = EbookOf[raw],
                              !.counts = CountsOf[raw]]
    /\ UNCHANGED <<extract_vars, store_vars, db, threads, resolved, call, writers>>

\* self._add_ebook(meta), after get_meta and get_ebook have succeeded
AddEbook(meta, raw) ==
    /\ InLoop
    /\ ~HasEbook(ebooks, build.ebook_id)
    /\ meta.language = "en"
    /\ EbookOf[raw] # None
    /\ IF \E r \in Rows(ebooks) : r.ebook_id = build.ebook_id
       THEN \* the primary key of ebooks rejects the row
            /\ build' = [build EXCEPT !.pc = "raised", !.exc = "IntegrityError"]
            /\ UNCHANGED <<ebooks, authors, ebook_authors>>
       ELSE /\ ebooks' = Append(ebooks, [ebook_id |-> build.ebook_id,
                                         language |-> meta.language])
            /\ authors' = AddAuthors(authors, meta.author)
            /\ ebook_authors' = ebook_authors \o
                   [i \in 1..Len(meta.author) |->
                       [ebook_id |-> build.ebook_id, author_id |-> meta.author[i]]]
            /\ build' = [build EXCEPT !.pc = "words", !.ebook = EbookOf[raw],
                                      !.counts = CountsOf[raw]]
    /\ UNCHANGED <<extract_vars, words, words_seq, ebook_words, db, threads,
                   resolved, call, writers>>

\* _add_ebook_words up to the join: the words are resolved and vals is built
ResolveWords ==
    /\ build.pc = "words"
    /\ IF build.counts = <<>>
       THEN \* words, counts = zip(*word_counts.items()) finds nothing to unpack
            /\ build' = [build EXCEPT !.pc = "raised", !.exc = "ValueError"]
            /\ UNCHANGED <<words, words_seq, db, resolved, call>>
       ELSE LET ws == [i \in 1..Len(build.counts) |-> build.counts[i][1]]
                r == IF db.concurrency
                     THEN AddWordsSafe(ws, <<>>, words, words_seq)
                     ELSE AddWordsUnsafe(ws, db.word_dict, db.word_id_max,
                                         words, words_seq)
            IN /\ words' = r.words
               /\ words_seq' = r.seq
               /\ db' = IF db.concurrency THEN db
                        ELSE [db EXCEPT !.word_dict = r.word_dict,
                                        !.word_id_max = r.word_id_max]
               /\ build' = [build EXCEPT !.pc = "join",
                               !.vals = [i \in 1..Len(ws) |->
                                   [ebook_id |-> build.ebook_id,
                                    word_id |-> r.ids[i],
                                    frequency |-> build.counts[i][2]]]]
               /\ resolved' = resolved \cup {<<ws[i], r.ids[i]>> : i \in 1..Len(ws)}
               /\ call' = [fast |-> ~db.concurrency, words |-> ws, ids |-> r.ids,
                           before |-> {x.word_id : x \in Rows(words)},
                           new |-> {w \in Rows(ws) : \A x \in Rows(words) : x.value # w}]
    /\ UNCHANGED <<extract_vars, ebooks, authors, ebook_authors, ebook_words, threads,
                   writers>>

Running == {i \in 1..Len(threads) : threads[i].state = "running"}

\* a dispatch that starts the new thread without joining the previous one
DispatchNoJoin ==
    /\ build.pc = "join"
    /\ threads' = Append(threads, [db |-> db.id, ebook_id |-> build.ebook_id,
                                   vals |-> build.vals, counts |-> build.counts,
                                   state |-> "running"])
    /\ db' = [db EXCEPT !.thread = Len(threads) + 1]
    /\ build' = [build EXCEPT !.pc = "loop", !.ebook_id = @ + 1, !.cnt = @ + 1,
                              !.outcome = "Ingested", !.vals = <<>>, !.counts = <<>>,
                              !.ebook = None, !.joined = "none"]
    /\ call' = NoCall
    /\ UNCHANGED <<extract_vars, store_vars, resolved, writers>>

\* "if self.thread: self.thread.join()", then the new thread is started;
\* join returns when the thread has ended, whether or not its target raised
Dispatch ==
    /\ build.pc = "join"
    /\ IF db.thread = 0 THEN TRUE ELSE threads[db.thread].state # "running"
    /\ threads' = Append(threads, [db |-> db.id, ebook_id |-> build.ebook_id,
                                   vals |-> build.vals, counts |-> build.counts,
                                   state |-> "running"])
    /\ db' = [db EXCEPT !.thread = Len(threads) + 1]
    /\ build' = [build EXCEPT !.pc = "loop", !.ebook_id = @ + 1, !.cnt = @ + 1,
                              !.outcome = "Ingested", !.vals = <<>>, !.counts = <<>>,
                              !.ebook = None,
                              !.joined = IF db.thread = 0 THEN "none"
                                         ELSE threads[db.thread].state]
    /\ call' = NoCall
    /\ UNCHANGED <<extract_vars, store_vars, resolved, writers>>

\* return cnt
BuildReturn ==
    /\ build.pc = "loop"
    /\ build.ebook_id >= build.end
    /\ build' = [IdleBuild EXCEPT !.cnt = build.cnt, !.ret = build.cnt,
                                  !.calls = build.calls]
    /\ UNCHANGED <<extract_vars, store_vars, db, threads, resolved, call, writers>>

\* the thread: conn2.execute(Database.ebook_words.insert(), vals).  A word_id
\* that is a list is bound or refused as the DB-API driver decides
ThreadRun(i, binds) ==
    /\ threads[i].state = "running"
    /\ LET vals == threads[i].vals
           lists == \E k \in 1..Len(vals) : vals[k].word_id.list
       IN /\ binds \/ lists
          /\ IF (lists /\ ~binds) \/ ~KeysFree(ebook_words, vals)
             THEN /\ threads' = [threads EXCEPT ![i].state = "failed"]
                  /\ UNCHANGED ebook_words
             ELSE /\ threads' = [threads EXCEPT ![i].state = "done"]
                  /\ ebook_words' = ebook_words \o
                        [k \in 1..Len(vals) |->
                            [ebook_id |-> vals[k].ebook_id,
                             word_id |-> vals[k].word_id.v,
                             frequency |-> vals[k].frequency]]
    /\ UNCHANGED <<extract_vars, ebooks, authors, ebook_authors, words, words_seq,
                   db, build, resolved, call, writers>>

Next ==
    \/ \E c \in BOOLEAN : Construct(c)
    \/ \E start \in 1..MaxEbook : \E end \in (start + 1)..(MaxEbook + 1) :
          BuildCall(start, end)
    \/ SkipPresent
    \/ SkipMeta
    \/ \E meta \in Metas(build.ebook_id) : SkipLanguage(meta)
    \/ \E meta \in Metas(build.ebook_id) : SkipText(meta)
    \/ \E meta \in Metas(build.ebook_id) :
          \E raw \in Served(build.ebook_id) : SkipBoundary(meta, raw)
    \/ \E meta \in Metas(build.ebook_id) :
          \E raw \in Served(build.ebook_id) : AddEbook(meta, raw)
    \/ ResolveWords
    \/ Dispatch
    \/ BuildReturn
    \/ \E i \in 1..Len(threads) : \E binds \in BOOLEAN : ThreadRun(i, binds)

Spec == Init /\ [][Next]_vars

(***************************************************************************)
(* The extractor alone: one call of get_ebook on a text that was fetched   *)
(***************************************************************************)
DbIdle ==
    /\ ebooks = <<>> /\ authors = <<>> /\ ebook_authors = <<>>
    /\ words = <<>> /\ words_seq = 1 /\ ebook_words = <<>>
    /\ db = NewDb(1, FALSE)
    /\ threads = <<>>
    /\ build = IdleBuild
    /\ resolved = {}
    /\ call = NoCall
    /\ writers = <<>>

ExtractInit ==
    /\ text \in Texts \cup LongTexts \cup {TextCharset}
    /\ result = Pending
    /\ DbIdle

Extract ==
    /\ result = Pending
    /\ result' = GetEbook(text)
    /\ UNCHANGED <<text, store_vars, db_vars, writers>>

ExtractNext == Extract

SpecExtract == ExtractInit /\ [][ExtractNext]_vars

(***************************************************************************)
(* Safe mode with other writers: MaxWriters Database instances built with  *)
(* concurrency=True are inside _add_words_safe on the same words table,    *)
(* each on a connection of its own.  A step is one statement sent to the   *)
(* store: the SELECT of _word_id or the INSERT.                            *)
(***************************************************************************)
MaxWriters == 2
MaxWords == 2       \* the length of the list a writer resolves

WordCat == <<"c", "a", "t">>
WordMat == <<"m", "a", "t">>

\* the lists of distinct words a call is made with (the keys of a Counter)
WordLists ==
    {ws \in UNION {[1..n -> {WordCat, WordMat}] : n \in 1..MaxWords} :
        \A i, j \in 1..Len(ws) : ws[i] = ws[j] => i = j}

WritersInit ==
    /\ ExtractIdle
    /\ ebooks = <<>> /\ authors = <<>> /\ ebook_authors = <<>>
    /\ words = <<>> /\ words_seq = 1 /\ ebook_words = <<>>
    /\ db = NewDb(1, TRUE)
    /\ threads = <<>>
    /\ build = IdleBuild
    /\ resolved = {}
    /\ call = NoCall
    /\ writers \in [1..MaxWriters ->
            {[pc |-> "lookup", todo |-> ws, word_ids |-> <<>>] : ws \in WordLists}]

\* the next word of the loop, or the return of word_ids
Advance(w, word_id) ==
    [pc |-> IF Len(w.todo) = 1 THEN "done" ELSE "lookup",
     todo |-> Tail(w.todo),
     word_ids |-> Append(w.word_ids, word_id)]

\* word_id = self._word_id(word)
Lookup(n) ==
    /\ writers[n].pc = "lookup"
    /\ LET word_id == WordId(words, Head(writers[n].todo))
       IN writers' = [writers EXCEPT ![n] =
                         IF word_id = -1 THEN [@ EXCEPT !.pc = "insert"]
                         ELSE Advance(@, PyInt(word_id))]
    /\ UNCHANGED <<extract_vars, store_vars, db_vars>>

\* word_id = self.conn.execute(Database.words.insert(), val).inserted_primary_key
Insert(n) ==
    /\ writers[n].pc = "insert"
    /\ LET word == Head(writers[n].todo)
       IN words' = InsertWord(words, words_seq, [hash |-> Hash(word), value |-> word])
    /\ words_seq' = words_seq + 1
    /\ writers' = [writers EXCEPT ![n] = Advance(@, PyList(words_seq))]
    /\ UNCHANGED <<extract_vars, ebooks, authors, ebook_authors, ebook_words, db_vars>>

WritersNext ==
    \/ \E n \in 1..MaxWriters : Lookup(n)
    \/ \E n \in 1..MaxWriters : Insert(n)

SpecWriters == WritersInit /\ [][WritersNext]_vars

(***************************************************************************)
(* The counter alone: one call of count_words on a document                *)
(***************************************************************************)
MaxCount == 4       \* occurrences of the word in a document

WordThe == <<"t", "h", "e">>
WordCannot == <<"c", "a", "n", "n", "o", "t">>
WordGonna == <<"g", "o", "n", "n", "a">>
CountWords == {WordCat, WordMat, WordThe, WordCannot, WordGonna}

\* what separates two tokens: a blank or a line break
Separators == {<<" ">>, <<"\n">>}

RECURSIVE Doc(_, _)
\* the document of Len(seps) + 1 occurrences of w with seps between them
Doc(w, seps) == IF seps = <<>> THEN w ELSE w \o Head(seps) \o Doc(w, Tail(seps))

Layouts == UNION {[1..n -> Separators] : n \in 0..(MaxCount - 1)}

Docs == {Doc(w, seps) : w \in CountWords, seps \in Layouts}

Counter(counts) == [tag |-> "Counter", val |-> counts]

CountInit ==
    /\ text \in Docs
    /\ result = Pending
    /\ DbIdle

\* counts = count_words(text)
Count ==
    /\ result = Pending
    /\ result' = Counter(count_words(text))
    /\ UNCHANGED <<text, store_vars, db_vars, writers>>

CountNext == Count

SpecCount == CountInit /\ [][CountNext]_vars

(***************************************************************************)
(* query_ebook_words on a store that build has loaded                      *)
(***************************************************************************)
MaxLimit == 3       \* the values of limit are None and 0..MaxLimit

WordSat == <<"s", "a", "t">>

\* count mappings of the ebooks in the store: the one of the end-to-end
\* scenario, one with equal counts, one with both
QueryCounts ==
    {<< <<WordCat, 2>>, <<WordSat, 1>> >>,
     << <<WordMat, 1>>, <<WordSat, 1>> >>,
     << <<WordCat, 2>>, <<WordSat, 1>>, <<WordMat, 1>> >>}

\* the words and ebook_words tables after a fast-mode instance has added the
\* count mapping cs for ebook_id and its thread has written the batch
Loaded(st, ebook_id, cs) ==
    LET ws == [i \in 1..Len(cs) |-> cs[i][1]]
        r == AddWordsUnsafe(ws, st.word_dict, st.word_id_max, st.words, st.seq)
    IN [words |-> r.words, seq |-> r.seq,
        word_dict |-> r.word_dict, word_id_max |-> r.word_id_max,
        ebook_words |-> st.ebook_words \o
            [i \in 1..Len(cs) |->
                [ebook_id |-> ebook_id, word_id |-> r.ids[i].v, frequency |-> cs[i][2]]]]

EmptyStore ==
    [words |-> <<>>, seq |-> 1, word_dict |-> <<>>, word_id_max |-> -1,
     ebook_words |-> <<>>]

Limit(n) == [tag |-> "int", val |-> n]

\* "if limit:" is false for None and for 0
Truthy(limit) == IF limit = None THEN FALSE ELSE limit.val # 0

\* the pairs <<i, j>> of the join of words and ebook_words on word_id that
\* pass "where ebook_words.ebook_id == ebook_id"
Joined(ebook_id) ==
    {p \in (1..Len(words)) \X (1..Len(ebook_words)) :
        /\ words[p[1]].word_id = ebook_words[p[2]].word_id
        /\ ebook_words[p[2]].ebook_id = ebook_id}

\* the orders in which "order by frequency desc" may deliver the joined
\* rows: rows of equal frequency come in any order
Ordered(J) ==
    {o \in [1..Cardinality(J) -> J] :
        /\ \A a, b \in 1..Cardinality(J) : o[a] = o[b] => a = b
        /\ \A a, b \in 1..Cardinality(J) :
              a < b => ebook_words[o[a][2]].frequency >= ebook_words[o[b][2]].frequency}

\* select words.value as word, ebook_words.frequency
Selected(o) ==
    [a \in 1..Len(o) |->
        [word |-> words[o[a][1]].value, frequency |-> ebook_words[o[a][2]].frequency]]

\* Database.query_ebook_words(ebook_id, limit): the lists fetchall may return
QueryEbookWords(ebook_id, limit) ==
    {IF Truthy(limit) THEN SubSeq(Selected(o), 1, Min({limit.val, Len(o)}))
     ELSE Selected(o) : o \in Ordered(Joined(ebook_id))}

\* the stores after build(1, 3) has ingested two ebooks
QueryStores ==
    {Loaded(Loaded(EmptyStore, 1, c1), 2, c2) : c1 \in QueryCounts, c2 \in QueryCounts}

\* the ebook ids asked for: the two in the store and one that is not
QueryIds == 1..3

QueryInit ==
    /\ text = <<>>
    /\ result = Pending
    /\ \E st \in QueryStores :
          /\ words = st.words
          /\ words_seq = st.seq
          /\ ebook_words = st.ebook_words
    /\ ebooks = <<[ebook_id |-> 1, language |-> "en"], [ebook_id |-> 2, language |-> "en"]>>
    /\ authors = <<>> /\ ebook_authors = <<>>
    /\ db = NewDb(1, FALSE)
    /\ threads = <<>>
    /\ build = IdleBuild
    /\ resolved = {}
    /\ call = NoCall
    /\ writers = <<>>

\* result = db.query_ebook_words(ebook_id, limit)
Query(ebook_id, limit) ==
    /\ result = Pending
    /\ \E rows \in QueryEbookWords(ebook_id, limit) :
          result' = [tag |-> "rows", ebook_id |-> ebook_id, limit |-> limit, rows |-> rows]
    /\ UNCHANGED <<text, store_vars, db_vars, writers>>

QueryNext ==
    \E ebook_id \in QueryIds : \E limit \in {None} \cup {Limit(k) : k \in 0..MaxLimit} :
        Query(ebook_id, limit)

SpecQuery == QueryInit /\ [][QueryNext]_vars

(***************************************************************************)
(* Properties of get_ebook, checked under SpecExtract                      *)
(***************************************************************************)
\* the line break that ends the header marker's line, or -1
HeaderLineEnd(t) == Find(t, "\n", HeaderMatch(t) + 1)

\* the absolute offset at which a footer marker starts in the region that
\* get_ebook means to search, t[ind:], or -1
FooterOffset(t) ==
    LET ind == FooterInd(t, HeaderLineEnd(t) + 1)
        region == Slice(t, ind, Len(t))
        k == FirstPattern(ebook_footers, region)
    IN IF k = 0 THEN -1 ELSE ind + Search(ebook_footers[k], region)

\* C1: for a text with a header marker at P, a line break ending the header's
\* line and a footer marker at Q after it, get_ebook returns exactly the
\* characters from right after that line break up to the absolute offset Q.
C1_BodyBetweenMarkers ==
    (/\ result # Pending
     /\ HeaderMatch(text) # -1
     /\ HeaderLineEnd(text) # -1
     /\ FooterOffset(text) # -1)
    => result = Str(Slice(text, HeaderLineEnd(text) + 1, FooterOffset(text)))

\* pattern k matches somewhere in the first HeaderWindow characters of t
InWindow(t, k) == Search(ebook_headers[k], Slice(t, 0, HeaderWindow)) # -1

\* the body get_ebook returns when the header marker is the match of pattern k
BodyAfter(t, k) ==
    LET P == Search(ebook_headers[k], Slice(t, 0, HeaderWindow))
        start == Find(t, "\n", P + 1) + 1
        f == FooterMatch(t)
    IN IF f = -1 THEN None ELSE Str(Slice(t, start, f + FooterInd(t, start)))

\* C15: the header marker get_ebook uses is the match of the first pattern,
\* in list order, that matches anywhere in the first 20,000 characters, also
\* when a later pattern of the list matches at an earlier offset; when no
\* pattern matches within the first 20,000 characters no header is found and
\* the result is None, whatever follows them.
C15_HeaderByPriority ==
    result # Pending =>
        \/ \E k \in 1..Len(ebook_headers) :
              /\ InWindow(text, k)
              /\ \A j \in 1..(k - 1) : ~InWindow(text, j)
              /\ result = BodyAfter(text, k)
        \/ /\ result = None
           /\ \A k \in 1..Len(ebook_headers) : ~InWindow(text, k)

\* a later pattern of the list matches before the pattern that is used
LaterPatternEarlier(t) ==
    LET prefix == Slice(t, 0, HeaderWindow)
        k == FirstPattern(ebook_headers, prefix)
    IN \E j \in (k + 1)..Len(ebook_headers) :
          /\ InWindow(t, j)
          /\ Search(ebook_headers[j], prefix) < Search(ebook_headers[k], prefix)

C15_Witness ==
    /\ result # Pending
    /\ result # None
    /\ LaterPatternEarlier(text)
    /\ text = Pad(HeaderWindow - 44) \o Join(<<LineStart, LineProduced, LineCat, LineEnd>>) \o <<"\n">>
    /\ result = Str(LineCat \o <<"\n">> \o LineEnd \o <<"\n">>)

\* C18: when a header pattern matches, the body starts at an offset strictly
\* greater than the offset of the header match, whether or not a line break
\* follows the header marker's line, and the body returned is the text from
\* that offset on: nothing of the marker line or of what precedes it.
C18_BodyStartsAfterHeader ==
    (result # Pending /\ HeaderMatch(text) # -1) =>
        LET P == HeaderMatch(text)
            start == BodyStart(text, P)
        IN /\ start > P
           /\ result # None => result = Str(Slice(text, start, start + Len(result.val)))

(***************************************************************************)
(* Properties of _add_words_safe among other writers, under SpecWriters    *)
(***************************************************************************)
\* C2: under every interleaving of the lookups and inserts of the safe-mode
\* writers, the words table holds at most one record per word value.
C2_OneRecordPerValue ==
    \A i, j \in 1..Len(words) : words[i].value = words[j].value => i = j

(***************************************************************************)
(* Properties of the Database, checked under Spec                          *)
(***************************************************************************)
\* C3: in both modes, the resolve calls of one Database instance return one
\* id per word: the call that creates the record and every later call agree.
C3_SameIdEveryCall ==
    \A p, q \in resolved : p[1] = q[1] => p[2] = q[2]

\* the positions of the last call's words that were not in the index before it
NewPositions == {i \in 1..Len(call.words) : call.words[i] \in call.new}

\* C4: in fast mode a call gives the words that were not yet in the index
\* pairwise distinct ids, none of them an id the words table held before the
\* call, and over the calls of an instance no two words share an id.
C4_FastIdsFresh ==
    call.fast =>
        /\ \A i, j \in NewPositions : call.ids[i] = call.ids[j] => i = j
        /\ \A i \in NewPositions : call.ids[i].v \notin call.before
        /\ \A p, q \in resolved : p[2] = q[2] => p[1] = q[1]

\* C14: after a fast-mode call the words table holds each new word under the
\* id that the call returned for it, which is also the id of the local cache.
C14_StoredUnderLocalId ==
    call.fast =>
        \A i \in NewPositions :
            /\ db.word_dict[call.words[i]] = call.ids[i].v
            /\ \A r \in Rows(words) :
                  r.value = call.words[i] => r.word_id = call.ids[i].v
            /\ \E r \in Rows(words) : r.value = call.words[i]

\* C5: of the write threads that one Database instance has dispatched, at
\* most one is running at any time.
C5_OneWriteInFlight ==
    \A i, j \in Running : threads[i].db = threads[j].db => i = j

\* an instance's second batch is running, after its first one has ended
C5_Witness ==
    \E i, j \in 1..Len(threads) :
        /\ i < j
        /\ threads[i].db = threads[j].db
        /\ threads[i].state # "running"
        /\ threads[j].state = "running"

\* C6: every ebook id with a row in ebook_words, and every ebook id whose
\* batch has been queued, has its row in ebooks.
C6_EbookRowFirst ==
    /\ \A r \in Rows(ebook_words) : \E e \in Rows(ebooks) : e.ebook_id = r.ebook_id
    /\ \A i \in 1..Len(threads) :
          \E e \in Rows(ebooks) : e.ebook_id = threads[i].ebook_id

\* a batch has been written while a later one is still queued
C6_Witness ==
    /\ ebook_words # <<>>
    /\ Running # {}

\* no table holds two rows with one key
UniqueKeys ==
    /\ \A i, j \in 1..Len(ebooks) : ebooks[i].ebook_id = ebooks[j].ebook_id => i = j
    /\ \A i, j \in 1..Len(ebook_authors) :
          (/\ ebook_authors[i].ebook_id = ebook_authors[j].ebook_id
           /\ ebook_authors[i].author_id = ebook_authors[j].author_id) => i = j
    /\ \A i, j \in 1..Len(ebook_words) :
          (/\ ebook_words[i].ebook_id = ebook_words[j].ebook_id
           /\ ebook_words[i].word_id = ebook_words[j].word_id) => i = j

\* build is at an id of its range that has a row in ebooks
AtPresentId == InLoop /\ \E e \in Rows(ebooks) : e.ebook_id = build.ebook_id

BatchWritten(i) ==
    LET cs == threads[i].counts
        mine == {k \in 1..Len(ebook_words) :
                    ebook_words[k].ebook_id = threads[i].ebook_id}
    IN /\ Cardinality(mine) = Len(cs)
       /\ \A c \in 1..Len(cs) :
             \E k \in mine :
                /\ ebook_words[k].frequency = cs[c][2]
                /\ \E w \in Rows(words) :
                      w.value = cs[c][1] /\ w.word_id = ebook_words[k].word_id

\* C8: once the write thread of an ingested ebook has ended, ebook_words
\* holds exactly one row per word of the ebook's count mapping, with the
\* word's count and the id of the words record of that word.
C8_RowsMatchCounts ==
    \A i \in 1..Len(threads) : threads[i].state # "running" => BatchWritten(i)

\* C9: when _add_ebook_words has joined a write thread that failed, the
\* failure is raised in build instead of the next batch being dispatched.
C9_FailureRaisedAtJoin ==
    build.joined = "failed" => build.pc = "raised"

\* C10: no error is raised out of build, whatever the outcome of an ebook.
C10_BuildNeverRaises ==
    build.pc # "raised"

\* the terminal states of an id that is not ingested
SkipStates ==
    {"AlreadyPresent", "MetadataFetchFailed", "NonEnglish", "TextFetchFailed",
     "BoundaryExtractionFailed"}

\* the step of build that ends an id in a skip state
SkipStep ==
    /\ build.pc = "loop"
    /\ build'.ebook_id = build.ebook_id + 1
    /\ build'.outcome \in SkipStates

\* C11: the step that ends an id in a skip state changes none of the five
\* tables and starts no thread, and unless the id was already present no
\* table holds a row of that id and no batch of it was ever queued.
C11_SkipWritesNothing ==
    [][SkipStep =>
          /\ UNCHANGED <<ebooks, authors, ebook_authors, words, ebook_words, threads>>
          /\ build'.outcome # "AlreadyPresent" =>
                /\ \A r \in Rows(ebooks) : r.ebook_id # build.ebook_id
                /\ \A r \in Rows(ebook_authors) : r.ebook_id # build.ebook_id
                /\ \A r \in Rows(ebook_words) : r.ebook_id # build.ebook_id
                /\ \A i \in 1..Len(threads) : threads[i].ebook_id # build.ebook_id]_vars

\* an id has been skipped for its missing markers in a store that holds rows
C11_Witness ==
    /\ build.outcome = "BoundaryExtractionFailed"
    /\ ebooks # <<>>
    /\ words # <<>>

\* the terminal states of an id
TerminalStates == SkipStates \cup {"Ingested"}

\* build is between its call and its end
InBuild(b) == b.pc \in {"loop", "words", "join"}

\* C16: build(start, end) starts at start, goes from an id to the next one
\* only, each time with exactly one terminal state for the id it leaves and
\* with the count raised by one exactly when that state is Ingested, and it
\* ends only after the last id of [start, end), returning the count.
C16_RangeVisitedInOrder ==
    [][/\ (build.pc = "idle" /\ build'.pc # "idle") =>
             /\ build'.pc = "loop"
             /\ build'.cnt = 0
             /\ build'.ebook_id < build'.end
       /\ (InBuild(build) /\ InBuild(build') /\ build'.ebook_id # build.ebook_id) =>
             /\ build.ebook_id < build.end
             /\ build'.ebook_id = build.ebook_id + 1
             /\ build'.outcome \in TerminalStates
             /\ build'.cnt = build.cnt + (IF build'.outcome = "Ingested" THEN 1 ELSE 0)
       /\ (InBuild(build) /\ InBuild(build') /\ build'.ebook_id = build.ebook_id) =>
             build'.cnt = build.cnt
       /\ (InBuild(build) /\ ~InBuild(build')) =>
             /\ build.ebook_id = build.end
             /\ build'.pc = "idle"
             /\ build'.ret = build.cnt]_vars

\* the threads that the build call that has returned ret dispatched: the last
\* ret of them, one for each ebook it counted
Dispatched == (Len(threads) - build.ret + 1)..Len(threads)

\* ebook_words holds one row for each word of the batch of thread i
RowsPresent(i) ==
    Cardinality({k \in 1..Len(ebook_words) :
                    ebook_words[k].ebook_id = threads[i].ebook_id})
        = Len(threads[i].counts)

\* C17: once build has returned, none of the write threads it started is
\* still running, and ebook_words holds the rows of every ebook that the
\* returned count includes.
C17_ReturnedMeansWritten ==
    (build.pc = "idle" /\ build.ret > 0) =>
        \A i \in Dispatched : threads[i].state # "running" /\ RowsPresent(i)

(***************************************************************************)
(* Properties of query_ebook_words, checked under SpecQuery                *)
(***************************************************************************)
\* the <<word, frequency>> pairs that the store holds for an ebook
StoredCounts(ebook_id) ==
    {<<words[p[1]].value, ebook_words[p[2]].frequency>> : p \in Joined(ebook_id)}

\* rows is a list of the K highest counts of the set S, highest first
TopK(rows, S, K) ==
    /\ Len(rows) = Min({K, Cardinality(S)})
    /\ \A a \in 1..Len(rows) : <<rows[a].word, rows[a].frequency>> \in S
    /\ \A a, b \in 1..Len(rows) : rows[a].word = rows[b].word => a = b
    /\ \A a, b \in 1..Len(rows) : a < b => rows[a].frequency >= rows[b].frequency
    /\ \A a \in 1..Len(rows) : \A x \in S :
          (\A b \in 1..Len(rows) : rows[b].word # x[1]) => x[2] <= rows[a].frequency

\* C12: query_ebook_words(ebook_id, K) returns at most K rows, the words of
\* the ebook with the K largest frequencies, each with its frequency, in
\* non-increasing order of frequency.
C12_TopKWords ==
    IF result.tag = "rows"
    THEN result.limit # None =>
            TopK(result.rows, StoredCounts(result.ebook_id), result.limit.val)
    ELSE TRUE

(***************************************************************************)
(* Properties of count_words, checked under SpecCount                      *)
(***************************************************************************)
\* w is lowercase, alphabetic and no stop word
Countable(w) == IsAlpha(w) /\ Lower(w) = w /\ w \notin stopwords

\* the call has returned the mapping {w: N} for every document of N
\* occurrences of a word w of the set W
MapsToCount(W) ==
    \A w \in W : \A seps \in Layouts :
        (result.tag = "Counter" /\ text = Doc(w, seps))
        => result.val = << <<w, Len(seps) + 1>> >>

\* C13 as stated: for every lowercase alphabetic word that is no stop word,
\* count_words on a document of exactly N occurrences of it, on any number
\* of lines, returns the mapping of that word to N.
C13_EveryWordCounted ==
    MapsToCount({w \in CountWords : Countable(w)})

\* C13 amended: the same for the words that word_tokenize keeps as one
\* token, which leaves out cannot, gimme, gonna, gotta, lemme and wanna.
C13_WholeWordCounted ==
    MapsToCount({w \in CountWords : Countable(w) /\ word_tokenize(w) = <<w>>})

\* a word has been counted over a document of several lines
C13_Witness ==
    /\ result.tag = "Counter"
    /\ text = Doc(WordCat, << <<"\n">>, <<" ">>, <<"\n">> >>)
    /\ result.val = << <<WordCat, 4>> >>

====
